---- MODULE Spec2Model ----
(***************************************************************************)
(* Model of src/protocols/rdp/channels/rail.c (guacamole-server): the RAIL *)
(* (RemoteApp) channel support of the RDP client.                          *)
(*                                                                         *)
(* One FreeRDP dispatch thread delivers the channel-connected event and    *)
(* the peer's PDUs (Handshake, HandshakeEx, Execute Result) to the         *)
(* callbacks of this file, one at a time.  A second thread stands for an   *)
(* unrelated channel writing to the same connection under the session's    *)
(* message_lock.                                                           *)
(***************************************************************************)
EXTENDS Integers, Sequences, FiniteSets, TLC

VARIABLES
    settings,      \* rdp_client->settings: width, height, remote_app, ...
    pluginState,   \* guac_rdp_rail_load_plugin: "unloaded", "loaded", "failed"
    subscribers,   \* handlers subscribed to PubSub ChannelConnected
    rail,          \* RailClientContext: custom and the three Server* callbacks
    message_lock,  \* rdp_client->message_lock: "free", "rail", "other"
    pc,            \* position of the dispatch thread inside complete_handshake
    step,          \* which of the four sends complete_handshake is at (0: none)
    status,        \* local variable status of complete_handshake
    cur,           \* the current (or last) run of complete_handshake
    prev,          \* the run before it
    last,          \* the event the dispatch thread handled last
    abortCalls,    \* statuses passed to guac_client_abort, in call order
    clientState,   \* guac_client state: "RUNNING" or "STOPPING"
    nFailed,       \* Execute Result PDUs handled whose code was not RAIL_EXEC_S_OK
    other,         \* position of the unrelated channel's sender thread
    gaps           \* n: in each of the first n gaps between two sends of the
                   \* current run, the other channel completed a send

vars == <<settings, pluginState, subscribers, rail, message_lock, pc, step,
          status, cur, prev, last, abortCalls, clientState, nFailed, other,
          gaps>>

----------------------------------------------------------------------------
(* Program constants *)

CHANNEL_RC_OK == 0

RAIL_EXEC_S_OK == 0

RAIL_EXEC_FLAG_EXPAND_ARGUMENTS == 8

GUAC_PROTOCOL_STATUS_UPSTREAM_UNAVAILABLE == 520

BuildNumber == 7600

ClientStatusFlags == 0

\* HCF_AVAILABLE | HCF_CONFIRMHOTKEY | HCF_HOTKEYACTIVE | HCF_HOTKEYAVAILABLE
\* | HCF_HOTKEYSOUND | HCF_INDICATOR
HighContrastFlags == 2 + 8 + 4 + 64 + 16 + 32

\* SPI_MASK_SET_DRAG_FULL_WINDOWS | SPI_MASK_SET_HIGH_CONTRAST
\* | SPI_MASK_SET_KEYBOARD_CUES | SPI_MASK_SET_KEYBOARD_PREF
\* | SPI_MASK_SET_MOUSE_BUTTON_SWAP | SPI_MASK_SET_WORK_AREA
SysparamMask == 1 + 128 + 2 + 4 + 8 + 16

\* "rail", as the bytes of the C string
RAIL_SVC_CHANNEL_NAME == <<114, 97, 105, 108>>

----------------------------------------------------------------------------
(* Bounds and input domains *)

\* failed Execute Result PDUs the peer sends in one session
MaxFailedResults == 2

\* channel names of channel-connected events: "rail", "rai", "rails", "RAIL",
\* "rdpdr"
ChannelNames ==
    { <<114, 97, 105, 108>>, <<114, 97, 105>>, <<114, 97, 105, 108, 115>>,
      <<82, 65, 73, 76>>, <<114, 100, 112, 100, 114>> }

\* statuses a send primitive may return: CHANNEL_RC_OK, ERROR_INVALID_DATA,
\* ERROR_INTERNAL_ERROR
SendStatuses == {0, 13, 1359}

\* result codes of an Execute Result PDU: RAIL_EXEC_S_OK,
\* RAIL_EXEC_E_HOOK_NOT_LOADED, RAIL_EXEC_E_FAIL
ExecResults == {0, 1, 6}

\* build numbers carried by the peer's Handshake / HandshakeEx PDU
Payloads == {7601, 9600}

\* session configurations (guac_rdp_settings): display size and RemoteApp
Settings ==
    { [width |-> 1024, height |-> 768, remote_app |-> "||notepad",
       remote_app_dir |-> "NULL", remote_app_args |-> "NULL"],
      [width |-> 66560, height |-> 600, remote_app |-> "/usr/bin/notepad",
       remote_app_dir |-> "C:\\Users", remote_app_args |-> "--readonly"] }

----------------------------------------------------------------------------
(* Pure functions *)

\* the byte of C string s at position i (1-based); the terminating NUL after it
CharAt(s, i) == IF i <= Len(s) THEN s[i] ELSE 0

RECURSIVE StrcmpFrom(_, _, _)
StrcmpFrom(a, b, i) ==
    IF CharAt(a, i) # CharAt(b, i) THEN CharAt(a, i) - CharAt(b, i)
    ELSE IF CharAt(a, i) = 0 THEN 0
    ELSE StrcmpFrom(a, b, i + 1)

\* a bug: compares only as many bytes as the first string has (strncmp)
StrcmpPrefix(a, b) ==
    IF \E i \in 1..Len(a) : CharAt(a, i) # CharAt(b, i) THEN 1 ELSE 0

\* strcmp(a, b): zero iff the two C strings are equal
Strcmp(a, b) == StrcmpFrom(a, b, 1)

\* conversion of an int to the UINT16 field of a RECTANGLE_16
ToUINT16(x) == x % 65536

\* a bug: the client information is sent before the handshake response
SendNameSwapped(k) ==
    <<"ClientInformation", "ClientHandshake", "ClientSystemParam",
      "ClientExecute">>[k]

\* the send primitive of the RailClientContext that step k calls
SendName(k) ==
    <<"ClientHandshake", "ClientInformation", "ClientSystemParam",
      "ClientExecute">>[k]

\* RAIL_SYSPARAM_ORDER sysparam, built from the settings s
SysparamOrder(s) ==
    [dragFullWindows |-> FALSE,
     highContrastFlags |-> HighContrastFlags,
     colorSchemeString |-> "NULL",
     colorSchemeLength |-> 0,
     keyboardCues |-> FALSE,
     keyboardPref |-> FALSE,
     mouseButtonSwap |-> FALSE,
     workArea |-> [left |-> 0, top |-> 0,
                   right |-> ToUINT16(s.width),
                   bottom |-> ToUINT16(s.height)],
     params |-> SysparamMask]

\* a bug: the working directory and the arguments change places
ExecOrderDirAndArgsSwapped(s) ==
    [flags |-> RAIL_EXEC_FLAG_EXPAND_ARGUMENTS,
     RemoteApplicationProgram |-> s.remote_app,
     RemoteApplicationWorkingDir |-> s.remote_app_args,
     RemoteApplicationArguments |-> s.remote_app_dir]

\* RAIL_EXEC_ORDER exec, built from the settings s
ExecOrder(s) ==
    [flags |-> RAIL_EXEC_FLAG_EXPAND_ARGUMENTS,
     RemoteApplicationProgram |-> s.remote_app,
     RemoteApplicationWorkingDir |-> s.remote_app_dir,
     RemoteApplicationArguments |-> s.remote_app_args]

\* the order (PDU contents) that step k builds from the settings s
SendOrder(k, s) ==
    CASE k = 1 -> [buildNumber |-> BuildNumber]
      [] k = 2 -> [flags |-> ClientStatusFlags]
      [] k = 3 -> SysparamOrder(s)
      [] k = 4 -> ExecOrder(s)

\* a bug: the failure of the system parameters send is not looked at
StepFailedUncheckedSysparam(k, s) == k # 3 /\ s # CHANNEL_RC_OK

\* a bug: the failure of the handshake response is not looked at
StepFailedUncheckedHandshake(k, s) == k # 1 /\ s # CHANNEL_RC_OK

\* if (status != CHANNEL_RC_OK) after step k
StepFailed(k, s) == s # CHANNEL_RC_OK

\* a bug: the function ends with return CHANNEL_RC_OK
ReturnStatusOkAtEnd(k, s) == IF k = 4 THEN CHANNEL_RC_OK ELSE s

\* return status, after step k
ReturnStatus(k, s) == s

\* a bug: only RAIL_EXEC_E_FAIL is taken as a failure
ShouldAbortOnlyOnFail(code) == code = 6

\* a bug: the session is aborted whatever the result
ShouldAbortAlways(code) == TRUE

\* if (execResult->execResult != RAIL_EXEC_S_OK)
ShouldAbort(code) == code # RAIL_EXEC_S_OK

\* a bug: the HandshakeEx callback is never installed
InstallCallbacksNoEx(r, client) ==
    [r EXCEPT !.custom = client,
              !.ServerExecuteResult = "guac_rdp_rail_execute_result",
              !.ServerHandshake = "guac_rdp_rail_handshake"]

\* the RailClientContext after the four assignments of channel_connected
InstallCallbacks(r, client) ==
    [r EXCEPT !.custom = client,
              !.ServerExecuteResult = "guac_rdp_rail_execute_result",
              !.ServerHandshake = "guac_rdp_rail_handshake",
              !.ServerHandshakeEx = "guac_rdp_rail_handshake_ex"]

\* a run of complete_handshake that has not happened
NoRun ==
    [variant |-> "none", payload |-> 0, calls |-> <<>>,
     rets |-> <<>>, locks |-> <<>>, done |-> FALSE, ret |-> 0]

\* the record of the run that starts when the callback of `variant` is called
\* with `payload`
NewRun(variant, payload) ==
    [variant |-> variant, payload |-> payload, calls |-> <<>>, rets |-> <<>>,
     locks |-> <<>>, done |-> FALSE, ret |-> 0]

\* the record of an event handled by the dispatch thread
Event(op, name, code, payload, ret) ==
    [op |-> op, name |-> name, code |-> code, payload |-> payload, ret |-> ret]

----------------------------------------------------------------------------
(* Initial state: the session exists, the RAIL plugin is not loaded yet, the *)
(* RailClientContext is as FreeRDP allocates it (zeroed).                    *)

Init ==
    /\ settings \in Settings
    /\ pluginState = "unloaded"
    /\ subscribers = 0
    /\ rail = [custom |-> "NULL", ServerExecuteResult |-> "NULL",
               ServerHandshake |-> "NULL", ServerHandshakeEx |-> "NULL"]
    /\ message_lock = "free"
    /\ pc = "idle"
    /\ step = 0
    /\ status = 0
    /\ cur = NoRun
    /\ prev = NoRun
    /\ last = Event("none", <<>>, 0, 0, 0)
    /\ abortCalls = <<>>
    /\ clientState = "RUNNING"
    /\ nFailed = 0
    /\ other = "idle"
    /\ gaps = 0

----------------------------------------------------------------------------
(* guac_rdp_rail_load_plugin and guac_rdp_rail_channel_connected *)

\* a bug: the return after the warning is missing
guac_rdp_rail_load_plugin_no_return(failed) ==
    /\ pc = "idle"
    /\ pluginState = "unloaded"
    /\ pluginState' = IF failed THEN "failed" ELSE "loaded"
    /\ subscribers' = subscribers + 1
    /\ last' = Event("load_plugin", <<>>, 0, 0, 0)
    /\ UNCHANGED <<settings, rail, message_lock, pc, step, status, cur, prev,
                   abortCalls, clientState, nFailed, other, gaps>>

\* a bug: a plugin that cannot be loaded ends the session
guac_rdp_rail_load_plugin_aborts(failed) ==
    /\ pc = "idle"
    /\ pluginState = "unloaded"
    /\ IF failed
       THEN /\ pluginState' = "failed"
            /\ abortCalls' =
                  Append(abortCalls, GUAC_PROTOCOL_STATUS_UPSTREAM_UNAVAILABLE)
            /\ clientState' = "STOPPING"
            /\ UNCHANGED subscribers
       ELSE /\ pluginState' = "loaded"
            /\ subscribers' = subscribers + 1
            /\ UNCHANGED <<abortCalls, clientState>>
    /\ last' = Event("load_plugin", <<>>, 0, 0, 0)
    /\ UNCHANGED <<settings, rail, message_lock, pc, step, status, cur, prev,
                   nFailed, other, gaps>>

\* failed: guac_freerdp_channels_load_plugin returned non-zero
guac_rdp_rail_load_plugin(failed) ==
    /\ pc = "idle"
    /\ pluginState = "unloaded"
    /\ IF failed
       THEN /\ pluginState' = "failed"
            /\ UNCHANGED subscribers
       ELSE /\ pluginState' = "loaded"
            /\ subscribers' = subscribers + 1
    /\ last' = Event("load_plugin", <<>>, 0, 0, 0)
    /\ UNCHANGED <<settings, rail, message_lock, pc, step, status, cur, prev,
                   abortCalls, clientState, nFailed, other, gaps>>

\* a bug: the client PDUs are sent as soon as the RAIL channel connects
guac_rdp_rail_channel_connected_sends(name) ==
    /\ pc = "idle"
    /\ IF Strcmp(name, RAIL_SVC_CHANNEL_NAME) # 0
       THEN UNCHANGED <<rail, pc, step>>
       ELSE /\ rail' = InstallCallbacks(rail, "guac_client")
            /\ pc' = "lock"
            /\ step' = 1
    /\ last' = Event("channel_connected", name, 0, 0, 0)
    /\ UNCHANGED <<settings, pluginState, subscribers, message_lock, status,
                   cur, prev, abortCalls, clientState, nFailed, other, gaps>>

guac_rdp_rail_channel_connected(name) ==
    /\ pc = "idle"
    /\ IF Strcmp(name, RAIL_SVC_CHANNEL_NAME) # 0
       THEN UNCHANGED rail
       ELSE rail' = InstallCallbacks(rail, "guac_client")
    /\ last' = Event("channel_connected", name, 0, 0, 0)
    /\ UNCHANGED <<settings, pluginState, subscribers, message_lock, pc, step,
                   status, cur, prev, abortCalls, clientState, nFailed,
                   other, gaps>>

\* FreeRDP's PubSub calls the subscribed handler for every channel that connects
ChannelConnectedEvent(name) ==
    /\ subscribers > 0
    /\ guac_rdp_rail_channel_connected(name)

----------------------------------------------------------------------------
(* guac_rdp_rail_complete_handshake, statement by statement *)

\* a bug: the sequence is sent once; a handshake received after a run that
\* succeeded is acknowledged and not answered
complete_handshake_enter_once(variant, payload) ==
    /\ pc = "idle"
    /\ prev' = IF cur.variant # "none" THEN cur ELSE prev
    /\ IF cur.done /\ cur.ret = CHANNEL_RC_OK
       THEN /\ cur' = [NewRun(variant, payload)
                         EXCEPT !.done = TRUE, !.ret = CHANNEL_RC_OK]
            /\ last' = Event(variant, <<>>, 0, payload, CHANNEL_RC_OK)
            /\ UNCHANGED <<pc, step>>
       ELSE /\ cur' = NewRun(variant, payload)
            /\ last' = Event(variant, <<>>, 0, payload, 0)
            /\ pc' = "lock"
            /\ step' = 1
    /\ UNCHANGED <<settings, pluginState, subscribers, rail, message_lock,
                   status, abortCalls, clientState, nFailed, other, gaps>>

\* entry: called by the handshake callback `variant` with the peer's PDU
complete_handshake_enter(variant, payload) ==
    /\ pc = "idle"
    /\ pc' = "lock"
    /\ step' = 1
    /\ prev' = IF cur.variant # "none" THEN cur ELSE prev
    /\ cur' = NewRun(variant, payload)
    /\ last' = Event(variant, <<>>, 0, payload, 0)
    /\ UNCHANGED <<settings, pluginState, subscribers, rail, message_lock,
                   status, abortCalls, clientState, nFailed, other, gaps>>

\* a bug: the send is made without taking the lock
complete_handshake_lock_skipped ==
    /\ pc = "lock"
    /\ pc' = "call"
    /\ cur' = [cur EXCEPT !.locks = Append(@, "lock")]
    /\ UNCHANGED <<settings, pluginState, subscribers, rail, message_lock,
                   step, status, prev, last, abortCalls, clientState,
                   nFailed, other, gaps>>

\* pthread_mutex_lock(&(rdp_client->message_lock))
complete_handshake_lock ==
    /\ pc = "lock"
    /\ message_lock = "free"
    /\ message_lock' = "rail"
    /\ pc' = "call"
    /\ cur' = [cur EXCEPT !.locks = Append(@, "lock")]
    /\ UNCHANGED <<settings, pluginState, subscribers, rail, step, status,
                   prev, last, abortCalls, clientState, nFailed,
                   other, gaps>>

\* the call of rail->ClientHandshake, ClientInformation, ClientSystemParam or
\* ClientExecute with the order built for this step
complete_handshake_call ==
    /\ pc = "call"
    /\ pc' = "insend"
    /\ cur' = [cur EXCEPT !.calls =
                 Append(@, [name |-> SendName(step),
                            order |-> SendOrder(step, settings)])]
    /\ UNCHANGED <<settings, pluginState, subscribers, rail, message_lock,
                   step, status, prev, last, abortCalls, clientState,
                   nFailed, other, gaps>>

\* the send primitive returns s, assigned to status
complete_handshake_send_returns(s) ==
    /\ pc = "insend"
    /\ pc' = "unlock"
    /\ status' = s
    /\ cur' = [cur EXCEPT !.rets = Append(@, s)]
    /\ UNCHANGED <<settings, pluginState, subscribers, rail, message_lock,
                   step, prev, last, abortCalls, clientState, nFailed, other,
                   gaps>>

\* a bug: the lock is kept until the last send
complete_handshake_unlock_late ==
    /\ pc = "unlock"
    /\ pc' = "check"
    /\ IF step = 4
       THEN /\ message_lock' = "free"
            /\ cur' = [cur EXCEPT !.locks = Append(@, "unlock")]
       ELSE UNCHANGED <<message_lock, cur>>
    /\ UNCHANGED <<settings, pluginState, subscribers, rail, step, status,
                   prev, last, abortCalls, clientState, nFailed,
                   other, gaps>>

\* pthread_mutex_unlock(&(rdp_client->message_lock))
complete_handshake_unlock ==
    /\ pc = "unlock"
    /\ pc' = "check"
    /\ message_lock' = "free"
    /\ cur' = [cur EXCEPT !.locks = Append(@, "unlock")]
    /\ UNCHANGED <<settings, pluginState, subscribers, rail, step, status,
                   prev, last, abortCalls, clientState, nFailed,
                   other, gaps>>

\* a bug: a failed send ends the session from within the sequencer
complete_handshake_check_aborts ==
    /\ pc = "check"
    /\ IF step = 4 \/ StepFailed(step, status)
       THEN /\ pc' = "idle"
            /\ step' = 0
            /\ cur' = [cur EXCEPT !.done = TRUE,
                                  !.ret = ReturnStatus(step, status)]
            /\ last' = [last EXCEPT !.ret = ReturnStatus(step, status)]
            /\ gaps' = 0
            /\ IF status # CHANNEL_RC_OK
               THEN /\ abortCalls' =
                         Append(abortCalls,
                                GUAC_PROTOCOL_STATUS_UPSTREAM_UNAVAILABLE)
                    /\ clientState' = "STOPPING"
               ELSE UNCHANGED <<abortCalls, clientState>>
       ELSE /\ pc' = "lock"
            /\ step' = step + 1
            /\ UNCHANGED <<cur, last, abortCalls, clientState, gaps>>
    /\ UNCHANGED <<settings, pluginState, subscribers, rail, message_lock,
                   status, prev, nFailed, other>>

\* if (status != CHANNEL_RC_OK) return status; and the final return status
complete_handshake_check ==
    /\ pc = "check"
    /\ IF step = 4 \/ StepFailed(step, status)
       THEN /\ pc' = "idle"
            /\ step' = 0
            /\ cur' = [cur EXCEPT !.done = TRUE,
                                  !.ret = ReturnStatus(step, status)]
            /\ last' = [last EXCEPT !.ret = ReturnStatus(step, status)]
            /\ gaps' = 0
       ELSE /\ pc' = "lock"
            /\ step' = step + 1
            /\ UNCHANGED <<cur, last, gaps>>
    /\ UNCHANGED <<settings, pluginState, subscribers, rail, message_lock,
                   status, prev, abortCalls, clientState, nFailed, other>>

----------------------------------------------------------------------------
(* The callbacks installed in the RailClientContext *)

guac_rdp_rail_handshake(handshake) ==
    complete_handshake_enter("handshake", handshake)

\* a bug: the HandshakeEx PDU is acknowledged and not answered
guac_rdp_rail_handshake_ex_unanswered(handshake_ex) ==
    /\ pc = "idle"
    /\ prev' = IF cur.variant # "none" THEN cur ELSE prev
    /\ cur' = [NewRun("handshake_ex", handshake_ex)
                 EXCEPT !.done = TRUE, !.ret = CHANNEL_RC_OK]
    /\ last' = Event("handshake_ex", <<>>, 0, handshake_ex, CHANNEL_RC_OK)
    /\ UNCHANGED <<settings, pluginState, subscribers, rail, message_lock, pc,
                   step, status, abortCalls, clientState, nFailed,
                   other, gaps>>

guac_rdp_rail_handshake_ex(handshake_ex) ==
    complete_handshake_enter("handshake_ex", handshake_ex)

\* guac_client_abort(client, status, ...): the session is told to stop
guac_client_abort(st) ==
    /\ abortCalls' = Append(abortCalls, st)
    /\ clientState' = "STOPPING"

guac_rdp_rail_execute_result(execResult) ==
    /\ pc = "idle"
    /\ execResult # RAIL_EXEC_S_OK => nFailed < MaxFailedResults
    /\ IF ShouldAbort(execResult)
       THEN guac_client_abort(GUAC_PROTOCOL_STATUS_UPSTREAM_UNAVAILABLE)
       ELSE UNCHANGED <<abortCalls, clientState>>
    /\ nFailed' = IF execResult # RAIL_EXEC_S_OK THEN nFailed + 1 ELSE nFailed
    /\ last' = Event("execute_result", <<>>, execResult, 0, CHANNEL_RC_OK)
    /\ UNCHANGED <<settings, pluginState, subscribers, rail, message_lock, pc,
                   step, status, cur, prev, other, gaps>>

\* FreeRDP's RAIL plugin calls the callback stored in the context, if any, when
\* the peer's PDU arrives
PeerHandshake(handshake) ==
    /\ rail.ServerHandshake = "guac_rdp_rail_handshake"
    /\ guac_rdp_rail_handshake(handshake)

PeerHandshakeEx(handshake_ex) ==
    /\ rail.ServerHandshakeEx = "guac_rdp_rail_handshake_ex"
    /\ guac_rdp_rail_handshake_ex(handshake_ex)

PeerExecuteResult(execResult) ==
    /\ rail.ServerExecuteResult = "guac_rdp_rail_execute_result"
    /\ guac_rdp_rail_execute_result(execResult)

----------------------------------------------------------------------------
(* An unrelated channel of the session, sending under message_lock *)

OtherLock ==
    /\ other = "idle"
    /\ message_lock = "free"
    /\ message_lock' = "other"
    /\ other' = "call"
    /\ UNCHANGED <<settings, pluginState, subscribers, rail, pc, step, status,
                   cur, prev, last, abortCalls, clientState, nFailed, gaps>>

OtherCall ==
    /\ other = "call"
    /\ other' = "insend"
    /\ UNCHANGED <<settings, pluginState, subscribers, rail, message_lock, pc,
                   step, status, cur, prev, last, abortCalls, clientState,
                   nFailed, gaps>>

\* the gap the sequencer is in: k between the unlock after send k and the lock
\* before send k + 1 of a run, 0 anywhere else
GapIndex ==
    IF pc = "lock" /\ step >= 2 THEN step - 1
    ELSE IF pc = "check" /\ step < 4 /\ ~StepFailed(step, status) THEN step
    ELSE 0

\* its send returns and it releases the lock
OtherUnlock ==
    /\ other = "insend"
    /\ other' = "idle"
    /\ message_lock' = "free"
    /\ gaps' = IF GapIndex = gaps + 1 THEN GapIndex ELSE gaps
    /\ UNCHANGED <<settings, pluginState, subscribers, rail, pc, step, status,
                   cur, prev, last, abortCalls, clientState, nFailed>>

----------------------------------------------------------------------------
(* Specification *)

Next ==
    \/ \E failed \in BOOLEAN : guac_rdp_rail_load_plugin(failed)
    \/ \E name \in ChannelNames : ChannelConnectedEvent(name)
    \/ \E p \in Payloads : PeerHandshake(p)
    \/ \E p \in Payloads : PeerHandshakeEx(p)
    \/ \E c \in ExecResults : PeerExecuteResult(c)
    \/ complete_handshake_lock
    \/ complete_handshake_call
    \/ \E s \in SendStatuses : complete_handshake_send_returns(s)
    \/ complete_handshake_unlock
    \/ complete_handshake_check
    \/ OtherLock
    \/ OtherCall
    \/ OtherUnlock

Spec == Init /\ [][Next]_vars

\* The session whose scheduling is followed to the end starts from the
\* configuration with the larger display: no guard of any action reads the
\* settings, so which configuration it is decides nothing about which steps
\* are taken.
FairInit ==
    /\ Init
    /\ settings.width = 66560

\* Scheduling: a thread that can take its next step takes it, a send call
\* returns, a holder of message_lock releases it, and a thread waiting for
\* the lock gets it if it is free again and again.  The peer and the other
\* channel need not send anything.
Fairness ==
    /\ SF_vars(complete_handshake_lock)
    /\ WF_vars(complete_handshake_call)
    /\ WF_vars(\E s \in SendStatuses : complete_handshake_send_returns(s))
    /\ WF_vars(complete_handshake_unlock)
    /\ WF_vars(complete_handshake_check)
    /\ WF_vars(OtherCall)
    /\ WF_vars(OtherUnlock)

FairSpec == FairInit /\ [][Next]_vars /\ Fairness

----------------------------------------------------------------------------
(* Properties of guac_rdp_rail_complete_handshake *)

\* the order of the four client PDUs
FixedOrder ==
    <<"ClientHandshake", "ClientInformation", "ClientSystemParam",
      "ClientExecute">>

\* the return value expected of a run whose sends returned rets: the status of
\* the first send that failed, CHANNEL_RC_OK if none did
FirstFailure(rets) ==
    IF \E i \in 1..Len(rets) : rets[i] # CHANNEL_RC_OK
    THEN rets[CHOOSE i \in 1..Len(rets) :
                /\ rets[i] # CHANNEL_RC_OK
                /\ \A j \in 1..(i - 1) : rets[j] = CHANNEL_RC_OK]
    ELSE CHANNEL_RC_OK

\* C1: the sends a run of the sequencer has issued are a prefix of
\* ClientHandshake, ClientInformation, ClientSystemParam, ClientExecute (none
\* reordered, repeated or skipped), and every send before the latest one has
\* returned CHANNEL_RC_OK.
C1_SendsFormPrefixOfOrder ==
    /\ Len(cur.calls) <= 4
    /\ \A i \in 1..Len(cur.calls) : cur.calls[i].name = FixedOrder[i]
    /\ Len(cur.calls) - 1 <= Len(cur.rets)
    /\ Len(cur.rets) <= Len(cur.calls)
    /\ \A i \in 1..(Len(cur.calls) - 1) : cur.rets[i] = CHANNEL_RC_OK

\* a run has issued all four sends
C1_Witness == cur.done /\ Len(cur.calls) = 4

\* C2: once send k of a run has returned a non-success status, no further
\* send is made in that run (the run is past its last send) and the run
\* returns exactly that status.
C2_FailureShortCircuits ==
    \A k \in 1..Len(cur.rets) :
        cur.rets[k] # CHANNEL_RC_OK =>
            /\ Len(cur.calls) = k
            /\ \/ cur.done
               \/ pc \in {"unlock", "check"}
            /\ cur.done => cur.ret = cur.rets[k]

\* the third send failed with ERROR_INTERNAL_ERROR and the run returned it
C2_Witness ==
    /\ cur.done
    /\ Len(cur.rets) = 3
    /\ cur.rets[3] = 1359
    /\ cur.ret = 1359

\* C3: a finished run returned CHANNEL_RC_OK iff all four sends were made and
\* each returned CHANNEL_RC_OK, and its return value is the status of the
\* first failing send, else CHANNEL_RC_OK.
C3_ReturnIsFirstFailure ==
    cur.done =>
        /\ cur.ret = FirstFailure(cur.rets)
        /\ cur.ret = CHANNEL_RC_OK <=>
              /\ Len(cur.calls) = 4
              /\ Len(cur.rets) = 4
              /\ \A i \in 1..4 : cur.rets[i] = CHANNEL_RC_OK

\* a run whose four sends all succeeded returned CHANNEL_RC_OK
C3_Witness ==
    /\ cur.done
    /\ cur.ret = CHANNEL_RC_OK
    /\ cur.rets = <<CHANNEL_RC_OK, CHANNEL_RC_OK, CHANNEL_RC_OK, CHANNEL_RC_OK>>

\* C4: at most one send is in progress: the sequencer and the unrelated
\* channel are never both inside a send, and whoever is inside a send holds
\* message_lock.
C4_AtMostOneSendInProgress ==
    /\ ~(pc = "insend" /\ other = "insend")
    /\ pc = "insend" => message_lock = "rail"
    /\ other = "insend" => message_lock = "other"

\* the sequencer waits for the lock before its second send while the other
\* channel's send is in progress
C4_Witness == pc = "lock" /\ step = 2 /\ other = "insend"

\* C5: the sequencer holds message_lock exactly from the acquisition before a
\* send to the release after it: not before the first send, between two
\* sends or after the return; the lock trace of a run alternates lock and
\* unlock, one pair per send made.
C5_LockHeldOnlyAroundEachSend ==
    /\ message_lock = "rail" <=> pc \in {"call", "insend", "unlock"}
    /\ \A i \in 1..Len(cur.locks) :
          cur.locks[i] = IF i % 2 = 1 THEN "lock" ELSE "unlock"
    /\ pc = "call" => Len(cur.locks) = 2 * Len(cur.calls) + 1
    /\ pc \in {"insend", "unlock"} => Len(cur.locks) = 2 * Len(cur.calls) - 1
    /\ pc \in {"lock", "check", "idle"} => Len(cur.locks) = 2 * Len(cur.calls)

\* a run returned early after its second send failed, the lock released
C5_Witness ==
    /\ cur.done
    /\ cur.ret # CHANNEL_RC_OK
    /\ Len(cur.calls) = 2
    /\ cur.locks = <<"lock", "unlock", "lock", "unlock">>
    /\ message_lock # "rail"

----------------------------------------------------------------------------
(* Properties of guac_rdp_rail_channel_connected *)

\* the RailClientContext with this file's client and callbacks installed
InstalledContext ==
    [custom |-> "guac_client",
     ServerExecuteResult |-> "guac_rdp_rail_execute_result",
     ServerHandshake |-> "guac_rdp_rail_handshake",
     ServerHandshakeEx |-> "guac_rdp_rail_handshake_ex"]

\* C6: a channel-connected event whose name is not the RAIL channel name
\* leaves the RailClientContext as it was (custom and the three callbacks),
\* starts no run of the sequencer (no send), leaves message_lock alone and
\* calls no session abort.
C6_OtherChannelChangesNothing ==
    [][\A name \in ChannelNames :
          (name # RAIL_SVC_CHANNEL_NAME /\ guac_rdp_rail_channel_connected(name))
          => /\ rail' = rail
             /\ cur' = cur
             /\ pc' = pc
             /\ message_lock' = message_lock
             /\ abortCalls' = abortCalls
             /\ clientState' = clientState]_vars

\* the event of a channel named "rai" was handled with the callbacks installed
C6_Witness ==
    /\ last.op = "channel_connected"
    /\ last.name = <<114, 97, 105>>
    /\ rail.ServerHandshake = "guac_rdp_rail_handshake"

\* C7: when the handler of a channel-connected event named as the RAIL channel
\* has returned, custom holds the client and the three callback slots hold
\* this file's handlers; a slot is never installed without the others, and no
\* peer PDU is handled by this file before all of them are.
C7_MatchInstallsAllCallbacks ==
    /\ (last.op = "channel_connected" /\ last.name = RAIL_SVC_CHANNEL_NAME)
          => rail = InstalledContext
    /\ last.op \in {"handshake", "handshake_ex", "execute_result"}
          => rail = InstalledContext
    /\ (\/ rail.custom # "NULL"
        \/ rail.ServerExecuteResult # "NULL"
        \/ rail.ServerHandshake # "NULL"
        \/ rail.ServerHandshakeEx # "NULL") => rail = InstalledContext

\* the event of the RAIL channel has just been handled
C7_Witness ==
    /\ last.op = "channel_connected"
    /\ last.name = RAIL_SVC_CHANNEL_NAME
    /\ cur = NoRun

----------------------------------------------------------------------------
(* Properties of guac_rdp_rail_execute_result *)

\* C8: the handler of an Execute Result returns CHANNEL_RC_OK for every result
\* code and, when the code is not RAIL_EXEC_S_OK, calls guac_client_abort
\* exactly once, with GUAC_PROTOCOL_STATUS_UPSTREAM_UNAVAILABLE.
C8_FailedResultAbortsOnce ==
    [][\A code \in ExecResults :
          guac_rdp_rail_execute_result(code)
          => /\ last'.ret = CHANNEL_RC_OK
             /\ code # RAIL_EXEC_S_OK =>
                   abortCalls' =
                      Append(abortCalls,
                             GUAC_PROTOCOL_STATUS_UPSTREAM_UNAVAILABLE)]_vars

\* a second failed Execute Result was handled: two abort calls in all
C8_Witness ==
    /\ last.op = "execute_result"
    /\ last.code = 1
    /\ last.ret = CHANNEL_RC_OK
    /\ abortCalls = <<GUAC_PROTOCOL_STATUS_UPSTREAM_UNAVAILABLE,
                      GUAC_PROTOCOL_STATUS_UPSTREAM_UNAVAILABLE>>

\* C9: handling an Execute Result whose code is RAIL_EXEC_S_OK calls no session
\* abort and leaves the client's state as it was.
C9_SuccessfulResultNoAbort ==
    [][guac_rdp_rail_execute_result(RAIL_EXEC_S_OK)
          => /\ abortCalls' = abortCalls
             /\ clientState' = clientState]_vars

\* a successful Execute Result was handled after a completed handshake and the
\* session is running, never aborted
C9_Witness ==
    /\ last.op = "execute_result"
    /\ last.code = RAIL_EXEC_S_OK
    /\ cur.done
    /\ cur.ret = CHANNEL_RC_OK
    /\ clientState = "RUNNING"
    /\ abortCalls = <<>>

----------------------------------------------------------------------------
(* Properties of guac_rdp_rail_handshake and guac_rdp_rail_handshake_ex *)

\* the sends of runs a and b were given the same outcomes: a primitive called
\* in both returned the same status in both
SameOutcomes(a, b) ==
    \A i \in 1..Len(a.rets) : \A j \in 1..Len(b.rets) :
        a.calls[i].name = b.calls[j].name => a.rets[i] = b.rets[j]

\* C10: two finished runs, one started by the Handshake callback and one by the
\* HandshakeEx callback, or started with different PDU contents, whose sends
\* were given the same outcomes made the same calls with the same orders, the
\* same lock and unlock trace, and returned the same status.
C10_HandshakeVariantsEquivalent ==
    (/\ cur.done
     /\ prev.done
     /\ prev.variant # cur.variant \/ prev.payload # cur.payload
     /\ SameOutcomes(prev, cur))
    => /\ prev.calls = cur.calls
       /\ prev.rets = cur.rets
       /\ prev.locks = cur.locks
       /\ prev.ret = cur.ret

\* a Handshake run and a HandshakeEx run with another build number both made
\* the four sends
C10_Witness ==
    /\ cur.done
    /\ prev.done
    /\ prev.variant = "handshake"
    /\ cur.variant = "handshake_ex"
    /\ prev.payload # cur.payload
    /\ SameOutcomes(prev, cur)
    /\ Len(cur.calls) = 4
    /\ Len(prev.calls) = 4

----------------------------------------------------------------------------
(* Ordering of the client PDUs against the peer's handshake *)

\* the index in run r of the call of primitive name, 0 if it was not called
CallIndex(r, name) ==
    IF \E i \in 1..Len(r.calls) : r.calls[i].name = name
    THEN CHOOSE i \in 1..Len(r.calls) : r.calls[i].name = name
    ELSE 0

\* in run r the call of primitive name was made and returned CHANNEL_RC_OK
\* before call number i
SucceededBefore(r, name, i) ==
    /\ CallIndex(r, name) > 0
    /\ CallIndex(r, name) < i
    /\ CallIndex(r, name) <= Len(r.rets)
    /\ r.rets[CallIndex(r, name)] = CHANNEL_RC_OK

\* C11: in every run, ClientExecute is called only after the ClientHandshake
\* call of the same run returned CHANNEL_RC_OK, and likewise after the
\* ClientInformation and ClientSystemParam calls of that run did; a run whose
\* ClientHandshake call failed holds no ClientExecute call.
C11_ExecuteOnlyAfterHandshakeSucceeded ==
    \A r \in {cur, prev} :
        /\ \A i \in 1..Len(r.calls) :
              r.calls[i].name = "ClientExecute" =>
                 /\ SucceededBefore(r, "ClientHandshake", i)
                 /\ SucceededBefore(r, "ClientInformation", i)
                 /\ SucceededBefore(r, "ClientSystemParam", i)
        /\ (Len(r.rets) >= 1 /\ r.rets[1] # CHANNEL_RC_OK)
              => CallIndex(r, "ClientExecute") = 0

\* the Execute PDU is being sent, in a run that follows one whose handshake
\* response failed
C11_Witness ==
    /\ pc = "insend"
    /\ CallIndex(cur, "ClientExecute") = 4
    /\ prev.done
    /\ prev.rets = <<13>>

\* C12: no client PDU is sent before a Handshake or HandshakeEx PDU was
\* received: whenever the sequencer runs or a call has been made, the run was
\* started by one of the two handshake callbacks, the plugin was loaded and the
\* callbacks were installed in the context; after the plugin load and the
\* channel-connected events alone, nothing was sent.
C12_NoSendBeforePeerHandshake ==
    /\ (pc # "idle" \/ Len(cur.calls) > 0 \/ Len(prev.calls) > 0)
          => /\ cur.variant \in {"handshake", "handshake_ex"}
             /\ pluginState = "loaded"
             /\ rail = InstalledContext
    /\ pc # "idle" => last.op = cur.variant
    /\ cur.variant = "none" => (pc = "idle" /\ cur = NoRun /\ prev = NoRun)

\* the first send ever is in progress, after a HandshakeEx PDU
C12_Witness ==
    /\ pc = "insend"
    /\ step = 1
    /\ cur.variant = "handshake_ex"
    /\ prev = NoRun

\* the RailClientContext as FreeRDP allocates it
NullContext ==
    [custom |-> "NULL", ServerExecuteResult |-> "NULL",
     ServerHandshake |-> "NULL", ServerHandshakeEx |-> "NULL"]

\* C13: a call of guac_rdp_rail_load_plugin whose plugin load failed subscribes
\* nothing and calls no session abort, and one whose load succeeded subscribes
\* exactly one handler; after a failed load the session keeps running with no
\* callback installed and nothing sent by this file.
C13_LoadFailureIsNotFatal ==
    /\ [][\A failed \in BOOLEAN :
             guac_rdp_rail_load_plugin(failed)
             => /\ subscribers' = subscribers + (IF failed THEN 0 ELSE 1)
                /\ abortCalls' = abortCalls
                /\ clientState' = clientState]_vars
    /\ [](pluginState = "failed"
             => /\ subscribers = 0
                /\ rail = NullContext
                /\ cur = NoRun
                /\ pc = "idle"
                /\ abortCalls = <<>>
                /\ clientState = "RUNNING")
    /\ [](pluginState = "loaded" => subscribers = 1)

\* the plugin load failed and the session goes on: another channel is sending
C13_Witness ==
    /\ pluginState = "failed"
    /\ other = "insend"
    /\ clientState = "RUNNING"

\* C17: guac_client_abort is called by the Execute Result handler alone: the
\* abort calls are as many as the failed Execute Results handled, each with
\* GUAC_PROTOCOL_STATUS_UPSTREAM_UNAVAILABLE, whatever sends have failed and
\* whatever the plugin load and the channel-connected events were.
C17_OnlyExecuteResultAborts ==
    /\ Len(abortCalls) = nFailed
    /\ \A i \in 1..Len(abortCalls) :
          abortCalls[i] = GUAC_PROTOCOL_STATUS_UPSTREAM_UNAVAILABLE
    /\ clientState = "STOPPING" <=> nFailed > 0

\* a send has failed and no Execute Result has: no abort call was made
C17_Witness ==
    /\ cur.done
    /\ cur.ret # CHANNEL_RC_OK
    /\ prev.done
    /\ prev.ret # CHANNEL_RC_OK
    /\ nFailed = 0
    /\ abortCalls = <<>>
    /\ last.op = "channel_connected"

----------------------------------------------------------------------------
(* Contents of the Execute and System Parameters orders *)

\* C14: every ClientExecute call carries the settings' remote_app,
\* remote_app_dir and remote_app_args as they are and the flags
\* RAIL_EXEC_FLAG_EXPAND_ARGUMENTS, and no step changes the settings.
C14_ExecuteCarriesSettingsVerbatim ==
    /\ [](\A r \in {cur, prev} : \A i \in 1..Len(r.calls) :
             r.calls[i].name = "ClientExecute" =>
                /\ r.calls[i].order.RemoteApplicationProgram
                      = settings.remote_app
                /\ r.calls[i].order.RemoteApplicationWorkingDir
                      = settings.remote_app_dir
                /\ r.calls[i].order.RemoteApplicationArguments
                      = settings.remote_app_args
                /\ r.calls[i].order.flags = RAIL_EXEC_FLAG_EXPAND_ARGUMENTS)
    /\ [][settings' = settings]_vars

\* an Execute PDU was sent for a session with a working directory and
\* arguments configured
C14_Witness ==
    /\ cur.done
    /\ Len(cur.calls) = 4
    /\ settings.remote_app_dir # "NULL"
    /\ settings.remote_app_args # "NULL"
    /\ cur.calls[4].order.RemoteApplicationWorkingDir = "C:\\Users"

\* C15: every ClientSystemParam call carries the work area (0, 0, width,
\* height) of the settings, for every configured display size.  The fields of
\* the work area are 16 bits wide and the settings' width and height are ints:
\* a width of 66560 is sent as 1024.
C15_WorkAreaIsDisplaySize ==
    \A r \in {cur, prev} : \A i \in 1..Len(r.calls) :
        r.calls[i].name = "ClientSystemParam" =>
            r.calls[i].order.workArea =
                [left |-> 0, top |-> 0, right |-> settings.width,
                 bottom |-> settings.height]

----------------------------------------------------------------------------
(* What a failed send leads to *)

----------------------------------------------------------------------------
(* Runs of the sequencer do not depend on earlier runs *)

\* C18: a run and the run before it, whatever the earlier one returned, make
\* the same calls with the same orders as far as both go, and when their
\* sends were given the same outcomes they are the same run over again: the
\* same calls, return statuses, lock trace and return value.
C18_RunsAreIndependentOfEarlierRuns ==
    prev.done =>
        /\ \A i \in 1..Len(cur.calls) :
              i <= Len(prev.calls) => cur.calls[i] = prev.calls[i]
        /\ (cur.done /\ SameOutcomes(prev, cur))
              => /\ cur.calls = prev.calls
                 /\ cur.rets = prev.rets
                 /\ cur.locks = prev.locks
                 /\ cur.ret = prev.ret

\* a handshake received after the session reached Running was answered with
\* the four sends again
C18_Witness ==
    /\ prev.done
    /\ prev.ret = CHANNEL_RC_OK
    /\ cur.done
    /\ cur.ret = CHANNEL_RC_OK
    /\ cur.variant = prev.variant
    /\ cur.payload = prev.payload
    /\ Len(cur.calls) = 4
    /\ cur.calls = prev.calls

----------------------------------------------------------------------------
(* Interleaving with the unrelated channel *)

\* C19: in each of the three gaps between two consecutive sends of a run the
\* sequencer does not hold message_lock, so the other channel's next step is
\* possible there: taking the lock if it is idle, sending and releasing if it
\* holds the lock.  (The interleaving itself is C19_Witness.)
C19_OtherChannelCanSendInEveryGap ==
    GapIndex \in 1..3 =>
        /\ message_lock # "rail"
        /\ other = "idle" => ENABLED OtherLock
        /\ other = "call" => ENABLED OtherCall
        /\ other = "insend" => ENABLED OtherUnlock
        /\ gaps <= GapIndex

\* in one run the other channel took the lock and completed a send in the gap
\* after the first, the second and the third send, and the sequencer is now
\* making its fourth send
C19_Witness ==
    /\ gaps = 3
    /\ pc = "insend"
    /\ step = 4
    /\ Len(cur.calls) = 4

----------------------------------------------------------------------------
(* Termination *)

\* the number of times the current run has taken message_lock
LockAcquisitions ==
    Cardinality({i \in 1..Len(cur.locks) : cur.locks[i] = "lock"})

\* C20: under FairSpec (each send returns, every holder of message_lock
\* releases it, a waiting sequencer eventually gets the lock) a run of
\* guac_rdp_rail_complete_handshake that has started always returns, so it
\* never waits for the lock for ever; a run makes at most four sends and
\* takes the lock at most four times; the Execute Result handler and the
\* channel-connected handler return in one step that leaves message_lock as
\* it was.
C20_HandlersTerminate ==
    /\ (pc # "idle") ~> (pc = "idle" /\ cur.done)
    /\ [](Len(cur.calls) <= 4 /\ LockAcquisitions <= 4)
    /\ [][((\E execResult \in ExecResults :
               guac_rdp_rail_execute_result(execResult))
           \/ (\E name \in ChannelNames : ChannelConnectedEvent(name)))
          => (message_lock' = message_lock /\ pc' = "idle")]_vars

\* a run has returned after four sends and four lock acquisitions, all of
\* them successful, while the other channel is using message_lock
C20_Witness ==
    /\ pc = "idle"
    /\ cur.done
    /\ cur.ret = CHANNEL_RC_OK
    /\ message_lock = "other"
    /\ Len(cur.calls) = 4
    /\ LockAcquisitions = 4

====
